---- MODULE Spec2Model ----
(***************************************************************************)
(* Tinybase: the storage contract (trait Db) over its two backends,        *)
(* Database (a fresh connection per operation) and Mutex<Connection> (one  *)
(* connection behind a tokio mutex), the record validator, and the two API *)
(* handlers that combine several storage calls.                            *)
(*                                                                         *)
(* One step of the model is one SQL statement (SQLite runs each statement  *)
(* of an autocommit connection atomically), one lock acquisition, or one   *)
(* return.  Tasks are the request-per-task units of the tokio runtime.     *)
(***************************************************************************)
EXTENDS Integers, Sequences, FiniteSets, TLC

\* ------------------------------------------------------------------ bounds
NumTasks == 2
MaxWrites == 3
MaxId == 2

Tasks == 1..NumTasks
Ids == 1..MaxId
NoTask == 0

\* ------------------------------------------------------- Option and JSON
None == [some |-> FALSE]
Some(x) == [some |-> TRUE, v |-> x]

\* serde_json::Value
JNull == [k |-> "Null"]
JBool(b) == [k |-> "Bool", b |-> b]
JNumber(n) == [k |-> "Number", n |-> n]
JString(s) == [k |-> "String", s |-> s]
JArray(a) == [k |-> "Array", a |-> a]
JObject(o) == [k |-> "Object", o |-> o]

\* ------------------------------------------------------------ validation
MissingRequiredField(f) == [e |-> "MissingRequiredField", f |-> f]
InvalidType(f, expected, actual) ==
    [e |-> "InvalidType", f |-> f, expected |-> expected, actual |-> actual]

get_value_type(value) ==
    CASE value.k = "Null" -> "null"
      [] value.k = "Bool" -> "boolean"
      [] value.k = "Number" -> "number"
      [] value.k = "String" -> "string"
      [] value.k = "Array" -> "array"
      [] value.k = "Object" -> "object"

\* Mutant: json accepts a value of any type.
is_correct_type_json_any(value, field_type) ==
    CASE field_type = "String" -> value.k = "String"
      [] field_type = "Text" -> value.k = "String"
      [] field_type = "Number" -> value.k = "Number"
      [] field_type = "Boolean" -> value.k = "Bool"
      [] field_type = "Json" -> TRUE

is_correct_type(value, field_type) ==
    CASE field_type = "String" -> value.k = "String"
      [] field_type = "Text" -> value.k = "String"
      [] field_type = "Number" -> value.k = "Number"
      [] field_type = "Boolean" -> value.k = "Bool"
      [] field_type = "Json" -> value.k = "Object" \/ value.k = "Array"

\* Mutant: a field whose value is null is looked up as absent.
FieldErrorsNullAbsent(field_name, field_def, data_map) ==
    IF field_name \in DOMAIN data_map /\ data_map[field_name].k # "Null"
    THEN IF ~is_correct_type(data_map[field_name], field_def.type)
         THEN <<InvalidType(field_name, field_def.type,
                            get_value_type(data_map[field_name]))>>
         ELSE <<>>
    ELSE IF field_def.required
         THEN <<MissingRequiredField(field_name)>>
         ELSE <<>>

\* The errors of one declared field (the body of the loop of validate_record).
FieldErrors(field_name, field_def, data_map) ==
    IF field_name \in DOMAIN data_map
    THEN IF ~is_correct_type(data_map[field_name], field_def.type)
         THEN <<InvalidType(field_name, field_def.type,
                            get_value_type(data_map[field_name]))>>
         ELSE <<>>
    ELSE IF field_def.required
         THEN <<MissingRequiredField(field_name)>>
         ELSE <<>>

\* Mutant: each error replaces the list (errors = vec![..]) where it should be
\* pushed: the list ends holding the last field in violation only.
RECURSIVE LoopErrorsLast(_, _, _)
LoopErrorsLast(schema, data_map, order) ==
    IF order = <<>> THEN <<>>
    ELSE LET rest == LoopErrorsLast(schema, data_map, Tail(order))
         IN  IF rest # <<>> THEN rest
             ELSE FieldErrors(Head(order), schema.fields[Head(order)], data_map)

\* Mutant: the loop returns at the first field in violation.
RECURSIVE LoopErrorsFirst(_, _, _)
LoopErrorsFirst(schema, data_map, order) ==
    IF order = <<>> THEN <<>>
    ELSE LET e == FieldErrors(Head(order), schema.fields[Head(order)], data_map)
         IN  IF e # <<>> THEN e
             ELSE LoopErrorsFirst(schema, data_map, Tail(order))

\* The loop over schema.fields, a HashMap: `order` is the order in which this
\* run of the program iterates it.
RECURSIVE LoopErrors(_, _, _)
LoopErrors(schema, data_map, order) ==
    IF order = <<>> THEN <<>>
    ELSE FieldErrors(Head(order), schema.fields[Head(order)], data_map)
         \o LoopErrors(schema, data_map, Tail(order))

\* Mutant: a document that is not an object is checked on as an empty object.
validate_record_no_return(schema, data, order) ==
    IF data.k # "Object"
    THEN [ok |-> FALSE,
          errors |-> <<InvalidType("data", "object", "not an object")>>
                     \o LoopErrors(schema, <<>>, order)]
    ELSE LET errors == LoopErrors(schema, data.o, order)
         IN  IF errors = <<>> THEN [ok |-> TRUE, errors |-> <<>>]
             ELSE [ok |-> FALSE, errors |-> errors]

\* Mutant: a field of the document that the schema does not declare is an error.
validate_record_exclusive(schema, data, order) ==
    IF data.k # "Object"
    THEN [ok |-> FALSE, errors |-> <<InvalidType("data", "object", "not an object")>>]
    ELSE LET unknown == DOMAIN data.o \ DOMAIN schema.fields
             extra == IF unknown = {} THEN <<>>
                      ELSE LET f == CHOOSE x \in unknown : TRUE
                           IN  <<InvalidType(f, "undeclared",
                                             get_value_type(data.o[f]))>>
             errors == LoopErrors(schema, data.o, order) \o extra
         IN  IF errors = <<>> THEN [ok |-> TRUE, errors |-> <<>>]
             ELSE [ok |-> FALSE, errors |-> errors]

\* Result<(), Vec<ValidationError>>: Ok(()) is [ok |-> TRUE].
validate_record(schema, data, order) ==
    IF data.k # "Object"
    THEN [ok |-> FALSE, errors |-> <<InvalidType("data", "object", "not an object")>>]
    ELSE LET errors == LoopErrors(schema, data.o, order)
         IN  IF errors = <<>> THEN [ok |-> TRUE, errors |-> <<>>]
             ELSE [ok |-> FALSE, errors |-> errors]

\* The iteration orders of a set of field names.
RECURSIVE Orders(_)
Orders(S) ==
    IF S = {} THEN {<<>>}
    ELSE UNION {{<<x>> \o o : o \in Orders(S \ {x})} : x \in S}

\* --------------------------------------------------------- serialization
\* serde_json::to_string / from_str on a Value: the JSON text, token by token.
RECURSIVE to_string(_)
to_string(value) ==
    CASE value.k = "Null" -> [j |-> "null"]
      [] value.k = "Bool" -> [j |-> IF value.b THEN "true" ELSE "false"]
      [] value.k = "Number" -> [j |-> "number", n |-> value.n]
      [] value.k = "String" -> [j |-> "string", s |-> value.s]
      [] value.k = "Array" ->
            [j |-> "array", a |-> [i \in DOMAIN value.a |-> to_string(value.a[i])]]
      [] value.k = "Object" ->
            [j |-> "object", o |-> [f \in DOMAIN value.o |-> to_string(value.o[f])]]

RECURSIVE from_str(_)
from_str(text) ==
    CASE text.j = "null" -> JNull
      [] text.j = "true" -> JBool(TRUE)
      [] text.j = "false" -> JBool(FALSE)
      [] text.j = "number" -> JNumber(text.n)
      [] text.j = "string" -> JString(text.s)
      [] text.j = "array" -> JArray([i \in DOMAIN text.a |-> from_str(text.a[i])])
      [] text.j = "object" -> JObject([f \in DOMAIN text.o |-> from_str(text.o[f])])

\* FieldType, #[serde(rename_all = "lowercase")].
field_type_token(field_type) ==
    CASE field_type = "String" -> "string"
      [] field_type = "Text" -> "text"
      [] field_type = "Number" -> "number"
      [] field_type = "Boolean" -> "boolean"
      [] field_type = "Json" -> "json"

\* Mutant: text is read back as string (the two treated as aliases).
token_field_type_merged(token) ==
    CASE token = "string" -> "String"
      [] token = "text" -> "String"
      [] token = "number" -> "Number"
      [] token = "boolean" -> "Boolean"
      [] token = "json" -> "Json"

token_field_type(token) ==
    CASE token = "string" -> "String"
      [] token = "text" -> "Text"
      [] token = "number" -> "Number"
      [] token = "boolean" -> "Boolean"
      [] token = "json" -> "Json"

\* serde_json::to_string(&schema) of an Option<CollectionSchema>: None is the
\* text null; a FieldDefinition's default of None is the member null.
schema_to_string(schema) ==
    IF ~schema.some THEN [j |-> "null"]
    ELSE [j |-> "object",
          fields |-> [f \in DOMAIN schema.v.fields |->
              [type |-> field_type_token(schema.v.fields[f].type),
               required |-> schema.v.fields[f].required,
               default |-> IF schema.v.fields[f].default.some
                           THEN to_string(schema.v.fields[f].default.v)
                           ELSE [j |-> "null"]]]]

\* serde_json::from_str::<Option<CollectionSchema>>: null is None, and a
\* member null of an Option field is None.
schema_from_str(text) ==
    IF text.j = "null" THEN None
    ELSE Some([fields |-> [f \in DOMAIN text.fields |->
              [type |-> token_field_type(text.fields[f].type),
               required |-> text.fields[f].required,
               default |-> IF text.fields[f].default.j = "null"
                           THEN None
                           ELSE Some(from_str(text.fields[f].default))]]])

\* -------------------------------------------------------------- the state
VARIABLES
    backend,      \* "A": Database, "B": Mutex<Connection>; fixed at startup
    collections,  \* table collections: id -> [name, schema]
    records,      \* table records: id -> [collection_id, data]
    seqCol,       \* sqlite_sequence of collections (AUTOINCREMENT)
    seqRec,       \* sqlite_sequence of records
    lastInsert,   \* last_insert_rowid() of each connection
    lock,         \* the task holding the tokio Mutex, or NoTask
    pc,           \* where each task is
    call,         \* the Db method each task is running
    req,          \* the request each task serves
    out,          \* the response the last step delivered, if it delivered one
    nops,         \* write requests started so far
    snap,         \* history: what a read would have returned when it took the lock
    cascaded,     \* history: <<c, r>>, r a record of c when c was deleted
    net,          \* history: per collection, creates returned minus rows deleted
    shadow        \* history: the tables, had each method run alone when it locked

vars == <<backend, collections, records, seqCol, seqRec, lastInsert, lock,
          pc, call, req, out, nops, snap, cascaded, net, shadow>>

\* A schema column that holds SQL NULL.
SqlNull == [j |-> "NULL"]

\* The connection a task's statements run on: the shared one, or its own.
Conn(t) == IF backend = "B" THEN 0 ELSE t

\* ------------------------------------------------------------ row mapping
row_to_collection(id) ==
    [id |-> id,
     name |-> collections[id].name,
     schema |-> IF collections[id].schema = SqlNull THEN None
                ELSE schema_from_str(collections[id].schema)]

\* Mutant: the data column returned as a JSON string, unparsed.
row_to_record_unparsed(id) ==
    [id |-> id, data |-> JString(records[id].data)]

row_to_record(id) ==
    [id |-> id, data |-> from_str(records[id].data)]

\* Rows come back in rowid order.
RECURSIVE SeqOf(_)
SeqOf(S) ==
    IF S = {} THEN <<>>
    ELSE LET m == CHOOSE x \in S : \A y \in S : x <= y
         IN  <<m>> \o SeqOf(S \ {m})

RecordsIn(table, c) == {r \in DOMAIN table : table[r].collection_id = c}
RecordsOf(c) == RecordsIn(records, c)

\* ---------------------------------------------------------------- results
Pending == [tag |-> "Pending"]
IdRes(n) == [tag |-> "Id", id |-> n]
NoneRes == [tag |-> "None"]
UnitRes == [tag |-> "Unit"]
ColRes(c) == [tag |-> "Collection", v |-> c]
ColsRes(cs) == [tag |-> "Collections", v |-> cs]
RecRes(r) == [tag |-> "Record", v |-> r]
RecsRes(rs) == [tag |-> "Records", v |-> rs]
ErrRes(msg) == [tag |-> "Err", msg |-> msg]
NotFoundRes == [tag |-> "AppError", e |-> "NotFound"]
ValidationRes(errors) == [tag |-> "AppError", e |-> "Validation", errors |-> errors]

\* What each SELECT of the storage layer yields on the current tables.
SelectCollection(id) ==
    IF id \in DOMAIN collections THEN ColRes(row_to_collection(id)) ELSE NoneRes

SelectCollections ==
    LET ids == SeqOf(DOMAIN collections)
    IN  ColsRes([i \in DOMAIN ids |-> row_to_collection(ids[i])])

\* Mutant: the listing without its collection_id condition.
SelectRecordsAll(c) ==
    LET ids == SeqOf(DOMAIN records)
    IN  RecsRes([i \in DOMAIN ids |-> row_to_record(ids[i])])

SelectRecords(c) ==
    LET ids == SeqOf(RecordsOf(c))
    IN  RecsRes([i \in DOMAIN ids |-> row_to_record(ids[i])])

\* Mutant: the lookup by record id alone.
SelectRecordById(c, r) ==
    IF r \in DOMAIN records THEN RecRes(row_to_record(r)) ELSE NoneRes

SelectRecord(c, r) ==
    IF r \in RecordsOf(c) THEN RecRes(row_to_record(r)) ELSE NoneRes

\* --------------------------------------------------------------- requests
Names == {"Users", "New Users"}
PostsSchema ==
    [fields |-> [title |-> [type |-> "String", required |-> TRUE, default |-> None]]]
OptSchemas == {None, Some(PostsSchema)}
OptNames == {None} \cup {Some(n) : n \in Names}
Docs == {JObject([title |-> JString("Hello!")]),
         JObject([wrong_field |-> JString("Hello!")])}

\* A request: a Db method called directly (api = FALSE), or the HTTP handler of
\* create_record / update_record (api = TRUE), which calls get_collection first.
\* after and conc are history, set when the request starts.
Req(kind, api, id, rid, name, schema, data) ==
    [kind |-> kind, api |-> api, id |-> id, rid |-> rid, name |-> name,
     schema |-> schema, data |-> data, after |-> FALSE, conc |-> FALSE]

NoReq == Req("none", FALSE, 0, 0, None, None, JNull)

Requests ==
    {Req("create_collection", FALSE, 0, 0, Some(n), s, JNull) :
        n \in Names, s \in OptSchemas}
    \cup {Req("get_collection", FALSE, c, 0, None, None, JNull) : c \in Ids}
    \cup {Req("list_collections", FALSE, 0, 0, None, None, JNull)}
    \cup {Req("update_collection", FALSE, x[1], 0, x[2], x[3], JNull) :
        x \in Ids \X OptNames \X OptSchemas}
    \cup {Req("delete_collection", FALSE, c, 0, None, None, JNull) : c \in Ids}
    \cup {Req("create_record", x[1], x[2], 0, None, None, x[3]) :
        x \in BOOLEAN \X Ids \X Docs}
    \cup {Req("list_records", FALSE, c, 0, None, None, JNull) : c \in Ids}
    \cup {Req("get_record", FALSE, x[1], x[2], None, None, JNull) : x \in Ids \X Ids}
    \cup {Req("update_record", x[1], x[2], x[3], None, None, x[4]) :
        x \in BOOLEAN \X Ids \X Ids \X Docs}
    \cup {Req("delete_record", FALSE, x[1], x[2], None, None, JNull) : x \in Ids \X Ids}

\* No response: the last step was not a return.
NoOut == [req |-> NoReq, res |-> Pending, snap |-> Pending]

ReadCalls == {"get_collection", "list_collections", "list_records", "get_record"}

\* The first statement of a Db method.
FirstPc(method, rq) ==
    CASE method = "create_collection" -> "ins_col"
      [] method = "get_collection" -> "sel_col"
      [] method = "list_collections" -> "sel_cols"
      [] method = "update_collection" ->
            IF rq.name.some THEN "upd_name"
            ELSE IF rq.schema.some THEN "upd_schema" ELSE "sel_col"
      [] method = "delete_collection" -> "del_col"
      [] method = "create_record" -> "ins_rec"
      [] method = "list_records" -> "sel_recs"
      [] method = "get_record" -> "sel_rec"
      [] method = "update_record" -> "upd_rec"
      [] method = "delete_record" -> "del_rec"

\* Where a task stands while a guard (or connection) of its method is in scope.
HoldPcs == {"ins_col", "ret_id", "sel_col", "sel_cols", "upd_name", "upd_schema",
            "del_col", "ins_rec", "sel_recs", "sel_rec", "upd_rec", "del_rec",
            "relock"}

Holding(t) == pc[t] \in HoldPcs

\* What a read method returns on the current tables.
ReadResult(method, rq) ==
    CASE method = "get_collection" -> SelectCollection(rq.id)
      [] method = "list_collections" -> SelectCollections
      [] method = "list_records" -> SelectRecords(rq.id)
      [] method = "get_record" -> SelectRecord(rq.id, rq.rid)
      [] OTHER -> Pending

\* ------------------------------------------------------------------- Init
Init ==
    /\ backend \in {"A", "B"}
    /\ collections = <<>>
    /\ records = <<>>
    /\ seqCol = 0
    /\ seqRec = 0
    /\ lastInsert = [c \in {0} \cup Tasks |-> 0]
    /\ lock = NoTask
    /\ pc = [t \in Tasks |-> "idle"]
    /\ call = [t \in Tasks |-> "none"]
    /\ req = [t \in Tasks |-> NoReq]
    /\ out = NoOut
    /\ nops = 0
    /\ snap = [t \in Tasks |-> Pending]
    /\ cascaded = {}
    /\ net = [c \in Ids |-> 0]
    /\ shadow = [collections |-> <<>>, records |-> <<>>]

\* ------------------------------------------------------ the SQL statements
\* Mutant: the table declared without AUTOINCREMENT: the new id is one more
\* than the largest id now in the table.
InsertIntoMaxRowid(table, seq, row) ==
    LET top == IF DOMAIN table = {} THEN 0
               ELSE CHOOSE x \in DOMAIN table : \A y \in DOMAIN table : y <= x
    IN  (top + 1 :> row) @@ table

\* INSERT into a table with an INTEGER PRIMARY KEY AUTOINCREMENT: the new id is
\* one more than the largest ever assigned.
InsertInto(table, seq, row) == (seq + 1 :> row) @@ table

\* Mutant: the statement written as an upsert (INSERT OR REPLACE).
UpdateCollectionsNameUpsert(table, id, name) ==
    IF id \in DOMAIN table THEN [table EXCEPT ![id].name = name]
    ELSE (id :> [name |-> name, schema |-> [j |-> "null"]]) @@ table

\* UPDATE collections SET name = ?1 WHERE id = ?2
UpdateCollectionsName(table, id, name) ==
    IF id \in DOMAIN table THEN [table EXCEPT ![id].name = name] ELSE table

\* Mutant: the statement without its WHERE clause.
UpdateCollectionsSchemaAllRows(table, id, text) ==
    [c \in DOMAIN table |-> [table[c] EXCEPT !.schema = text]]

\* UPDATE collections SET schema = ?1 WHERE id = ?2
UpdateCollectionsSchema(table, id, text) ==
    IF id \in DOMAIN table THEN [table EXCEPT ![id].schema = text] ELSE table

\* DELETE FROM collections WHERE id = ?1
DeleteFromCollections(table, id) ==
    [c \in DOMAIN table \ {id} |-> table[c]]

\* Mutant: the statement keyed by record id alone, setting collection_id too.
UpdateRecordsDataMoving(table, c, r, text) ==
    IF r \in DOMAIN table
    THEN [table EXCEPT ![r] = [collection_id |-> c, data |-> text]]
    ELSE table

\* UPDATE records SET data = ?1 WHERE collection_id = ?2 AND id = ?3
UpdateRecordsData(table, c, r, text) ==
    IF r \in RecordsIn(table, c) THEN [table EXCEPT ![r].data = text] ELSE table

\* Mutant: the statement without its collection_id condition.
DeleteFromRecordsById(table, c, r) ==
    [x \in DOMAIN table \ {r} |-> table[x]]

\* DELETE FROM records WHERE collection_id = ?1 AND id = ?2
DeleteFromRecords(table, c, r) ==
    [x \in DOMAIN table \ ({r} \cap RecordsIn(table, c)) |-> table[x]]

\* The rows create_collection and create_record insert.
CollectionRow(rq) == [name |-> rq.name.v, schema |-> schema_to_string(rq.schema)]
RecordRow(rq) == [collection_id |-> rq.id, data |-> to_string(rq.data)]

\* A Db method run alone, start to end, on the tables db: all its statements.
Atomically(method, rq, db) ==
    CASE method = "create_collection" ->
            [db EXCEPT !.collections = InsertInto(@, seqCol, CollectionRow(rq))]
      [] method = "update_collection" ->
            LET named == IF rq.name.some
                         THEN UpdateCollectionsName(db.collections, rq.id, rq.name.v)
                         ELSE db.collections
            IN  [db EXCEPT !.collections =
                    IF rq.schema.some
                    THEN UpdateCollectionsSchema(named, rq.id,
                                                 schema_to_string(rq.schema))
                    ELSE named]
      [] method = "delete_collection" ->
            [db EXCEPT !.collections = DeleteFromCollections(@, rq.id)]
      [] method = "create_record" ->
            [db EXCEPT !.records = InsertInto(@, seqRec, RecordRow(rq))]
      [] method = "update_record" ->
            [db EXCEPT !.records =
                UpdateRecordsData(@, rq.id, rq.rid, to_string(rq.data))]
      [] method = "delete_record" ->
            [db EXCEPT !.records = DeleteFromRecords(@, rq.id, rq.rid)]
      [] OTHER -> db

\* ------------------------------------------------------------ the mutex
\* Mutant: a lock that never makes a caller wait.
LockNeverWaits == TRUE

\* self.lock().await completes only while no guard is alive.
LockFree == lock = NoTask

\* Mutant: the guard is dropped at once (let _ = self.lock().await).
AcquireDropped(t) == NoTask

\* let conn = ..: the guard lives in conn until the method returns.
Acquire(t) == t

\* Mutant: the methods of Mutex<Connection> use the connection without locking.
StartPcNoLock(method, rq) == FirstPc(method, rq)

\* Every method of Mutex<Connection> starts with self.lock().await; a method of
\* Database starts with self.connect() and goes on to its first statement.
StartPc(method, rq) ==
    IF backend = "B" THEN "lock" ELSE FirstPc(method, rq)

\* The engine runs one statement sequence at a time on a connection: a
\* statement issued on a connection another task is using fails.
EngineBusy(t) == \E u \in Tasks \ {t} : Conn(u) = Conn(t) /\ Holding(u)

\* ---------------------------------------------------------------- actions
\* The method returns `result`: its guard (or connection) goes out of scope.
TaskDone(t, result) ==
    /\ out' = [req |-> req[t], res |-> result, snap |-> snap[t]]
    /\ pc' = [pc EXCEPT ![t] = "idle"]
    /\ call' = [call EXCEPT ![t] = "none"]
    /\ req' = [req EXCEPT ![t] = NoReq]
    /\ snap' = [snap EXCEPT ![t] = Pending]
    /\ lock' = NoTask
    /\ UNCHANGED <<backend, nops, shadow>>

\* `?` on a failed statement.
EngineFailure(t) ==
    /\ TaskDone(t, ErrRes("engine"))
    /\ UNCHANGED <<collections, records, seqCol, seqRec, lastInsert,
                   cascaded, net>>

\* A request arrives and a task is spawned for it.
Invoke(t) ==
    /\ pc[t] = "idle"
    /\ \E rq \in Requests :
        /\ rq.kind \notin ReadCalls => nops < MaxWrites
        /\ nops' = IF rq.kind \in ReadCalls THEN nops ELSE nops + 1
        /\ rq.kind = "create_collection" => seqCol < MaxId
        /\ rq.kind = "create_record" => seqRec < MaxId
        /\ LET method == IF rq.api THEN "get_collection" ELSE rq.kind
               full == [rq EXCEPT
                   !.after = rq.kind = "get_record"
                             /\ <<rq.id, rq.rid>> \in cascaded,
                   !.conc = rq.kind = "create_record"
                            /\ \E u \in Tasks \ {t} :
                                /\ pc[u] # "idle"
                                /\ req[u].kind = "create_record"
                                /\ req[u].id = rq.id]
           IN  /\ req' = [req EXCEPT ![t] = full]
               /\ call' = [call EXCEPT ![t] = method]
               /\ pc' = [pc EXCEPT ![t] = StartPc(method, rq)]
    /\ out' = NoOut
    /\ UNCHANGED <<backend, collections, records, seqCol, seqRec, lastInsert,
                   lock, snap, cascaded, net, shadow>>

\* let conn = self.lock().await, in a Db method of Mutex<Connection>; also the
\* lock() of the get_record that update_record calls on self.
Lock(t) ==
    /\ backend = "B"
    /\ pc[t] \in {"lock", "relock"}
    /\ LockFree
    /\ lock' = Acquire(t)
    /\ shadow' = IF pc[t] = "lock" THEN Atomically(call[t], req[t], shadow)
                 ELSE shadow
    /\ pc' = [pc EXCEPT ![t] = IF pc[t] = "relock" THEN "sel_rec"
                               ELSE FirstPc(call[t], req[t])]
    /\ snap' = [snap EXCEPT ![t] = IF pc[t] = "lock"
                                   THEN ReadResult(call[t], req[t]) ELSE @]
    /\ out' = NoOut
    /\ UNCHANGED <<backend, collections, records, seqCol, seqRec, lastInsert,
                   call, req, nops, cascaded, net>>

\* create_collection: INSERT INTO collections (name, schema).
InsertCollection(t) ==
    /\ pc[t] = "ins_col"
    /\ IF EngineBusy(t) THEN EngineFailure(t)
       ELSE /\ collections' = InsertInto(collections, seqCol, CollectionRow(req[t]))
            /\ seqCol' = seqCol + 1
            /\ lastInsert' = [lastInsert EXCEPT ![Conn(t)] = seqCol + 1]
            /\ pc' = [pc EXCEPT ![t] = "ret_id"]
            /\ UNCHANGED <<backend, records, seqRec, lock, call, req, nops,
                           snap, cascaded, net, shadow>>
            /\ out' = NoOut

\* Mutant: the storage layer refuses a record for a collection that is absent.
InsertRecordChecked(t) ==
    /\ pc[t] = "ins_rec"
    /\ IF EngineBusy(t) THEN EngineFailure(t)
       ELSE IF req[t].id \notin DOMAIN collections
       THEN /\ TaskDone(t, ErrRes("Collection not found"))
            /\ UNCHANGED <<collections, records, seqCol, seqRec, lastInsert,
                           cascaded, net>>
       ELSE /\ records' = InsertInto(records, seqRec, RecordRow(req[t]))
            /\ seqRec' = seqRec + 1
            /\ lastInsert' = [lastInsert EXCEPT ![Conn(t)] = seqRec + 1]
            /\ pc' = [pc EXCEPT ![t] = "ret_id"]
            /\ UNCHANGED <<backend, collections, seqCol, lock, call, req,
                           nops, snap, cascaded, net, shadow>>
            /\ out' = NoOut

\* create_record: INSERT INTO records (collection_id, data).
InsertRecord(t) ==
    /\ pc[t] = "ins_rec"
    /\ IF EngineBusy(t) THEN EngineFailure(t)
       ELSE /\ records' = InsertInto(records, seqRec, RecordRow(req[t]))
            /\ seqRec' = seqRec + 1
            /\ lastInsert' = [lastInsert EXCEPT ![Conn(t)] = seqRec + 1]
            /\ pc' = [pc EXCEPT ![t] = "ret_id"]
            /\ UNCHANGED <<backend, collections, seqCol, lock, call, req,
                           nops, snap, cascaded, net, shadow>>
            /\ out' = NoOut

\* Mutant: the id is read back with SELECT max(id) where the connection's
\* last_insert_rowid() should be used.
ReturnRowidMaxId(t) ==
    /\ pc[t] = "ret_id"
    /\ LET table == IF call[t] = "create_collection" THEN collections ELSE records
           top == IF DOMAIN table = {} THEN 0
                  ELSE CHOOSE x \in DOMAIN table : \A y \in DOMAIN table : y <= x
       IN  TaskDone(t, IdRes(top))
    /\ lastInsert' = IF backend = "A" THEN [lastInsert EXCEPT ![t] = 0]
                     ELSE lastInsert
    /\ net' = IF call[t] = "create_record"
              THEN [net EXCEPT ![req[t].id] = @ + 1] ELSE net
    /\ UNCHANGED <<collections, records, seqCol, seqRec, cascaded>>

\* Ok(conn.last_insert_rowid()) of create_collection and create_record.
ReturnRowid(t) ==
    /\ pc[t] = "ret_id"
    /\ TaskDone(t, IdRes(lastInsert[Conn(t)]))
    /\ lastInsert' = IF backend = "A" THEN [lastInsert EXCEPT ![t] = 0]
                     ELSE lastInsert
    /\ net' = IF call[t] = "create_record"
              THEN [net EXCEPT ![req[t].id] = @ + 1] ELSE net
    /\ UNCHANGED <<collections, records, seqCol, seqRec, cascaded>>

\* Mutant: the handler without its validate_record call.
HandlerUnchecked(t, row) ==
    IF row = NoneRes THEN TaskDone(t, NotFoundRes)
    ELSE /\ call' = [call EXCEPT ![t] = req[t].kind]
         /\ pc' = [pc EXCEPT ![t] = StartPc(req[t].kind, req[t])]
         /\ lock' = NoTask
         /\ out' = NoOut
         /\ snap' = [snap EXCEPT ![t] = Pending]
         /\ UNCHANGED <<backend, req, nops, shadow>>

\* The create_record / update_record handler after its get_collection: 404 when
\* the collection is absent, 422 when it has a schema the data fails, else the
\* storage call.
Handler(t, row) ==
    IF row = NoneRes THEN TaskDone(t, NotFoundRes)
    ELSE \E order \in Orders(IF row.v.schema.some
                             THEN DOMAIN row.v.schema.v.fields ELSE {}) :
            LET v == IF row.v.schema.some
                     THEN validate_record(row.v.schema.v, req[t].data, order)
                     ELSE [ok |-> TRUE, errors |-> <<>>]
            IN  IF ~v.ok THEN TaskDone(t, ValidationRes(v.errors))
                ELSE /\ call' = [call EXCEPT ![t] = req[t].kind]
                     /\ pc' = [pc EXCEPT ![t] = StartPc(req[t].kind, req[t])]
                     /\ lock' = NoTask
                     /\ out' = NoOut
                     /\ snap' = [snap EXCEPT ![t] = Pending]
                     /\ UNCHANGED <<backend, req, nops, shadow>>

\* SELECT id, name, schema FROM collections WHERE id = ?1: get_collection, and
\* the read-back of update_collection.
GetCollectionRow(t) ==
    /\ pc[t] = "sel_col"
    /\ IF EngineBusy(t) THEN EngineFailure(t)
       ELSE /\ LET row == SelectCollection(req[t].id)
               IN  IF call[t] = "update_collection"
                   THEN TaskDone(t, IF row = NoneRes
                                    THEN ErrRes("Collection not found") ELSE row)
                   ELSE IF req[t].api THEN Handler(t, row)
                   ELSE TaskDone(t, row)
            /\ UNCHANGED <<collections, records, seqCol, seqRec, lastInsert,
                           cascaded, net>>

\* list_collections: SELECT id, name, schema FROM collections.
ListCollections(t) ==
    /\ pc[t] = "sel_cols"
    /\ IF EngineBusy(t) THEN EngineFailure(t)
       ELSE /\ TaskDone(t, SelectCollections)
            /\ UNCHANGED <<collections, records, seqCol, seqRec, lastInsert,
                           cascaded, net>>

\* update_collection, if let Some(name): UPDATE collections SET name.
UpdateName(t) ==
    /\ pc[t] = "upd_name"
    /\ IF EngineBusy(t) THEN EngineFailure(t)
       ELSE /\ collections' = UpdateCollectionsName(collections, req[t].id,
                                                        req[t].name.v)
            /\ pc' = [pc EXCEPT ![t] = IF req[t].schema.some THEN "upd_schema"
                                       ELSE "sel_col"]
            /\ UNCHANGED <<backend, records, seqCol, seqRec, lastInsert, lock,
                           call, req, nops, snap, cascaded, net, shadow>>
            /\ out' = NoOut

\* Mutant: a new schema is enforced on the stored records: those of the
\* collection that fail it are deleted.
UpdateSchemaRevalidating(t) ==
    /\ pc[t] = "upd_schema"
    /\ IF EngineBusy(t) THEN EngineFailure(t)
       ELSE /\ collections' = UpdateCollectionsSchema(collections, req[t].id,
                                    schema_to_string(req[t].schema))
            /\ records' =
                LET S == req[t].schema.v
                    o == CHOOSE x \in Orders(DOMAIN S.fields) : TRUE
                    keep == {r \in DOMAIN records :
                                \/ records[r].collection_id # req[t].id
                                \/ validate_record(S, from_str(records[r].data), o).ok}
                IN  [r \in keep |-> records[r]]
            /\ pc' = [pc EXCEPT ![t] = "sel_col"]
            /\ UNCHANGED <<backend, seqCol, seqRec, lastInsert, lock,
                           call, req, nops, snap, cascaded, net, shadow>>
            /\ out' = NoOut

\* update_collection, if let Some(schema): UPDATE collections SET schema.
UpdateSchema(t) ==
    /\ pc[t] = "upd_schema"
    /\ IF EngineBusy(t) THEN EngineFailure(t)
       ELSE /\ collections' = UpdateCollectionsSchema(collections, req[t].id,
                                    schema_to_string(req[t].schema))
            /\ pc' = [pc EXCEPT ![t] = "sel_col"]
            /\ UNCHANGED <<backend, records, seqCol, seqRec, lastInsert, lock,
                           call, req, nops, snap, cascaded, net, shadow>>
            /\ out' = NoOut

\* delete_collection: DELETE FROM collections WHERE id = ?1, and nothing else.
DeleteCollection(t) ==
    /\ pc[t] = "del_col"
    /\ IF EngineBusy(t) THEN EngineFailure(t)
       ELSE /\ collections' = DeleteFromCollections(collections, req[t].id)
            /\ cascaded' = IF req[t].id \in DOMAIN collections
                           THEN cascaded \cup {<<req[t].id, r>> : r \in RecordsOf(req[t].id)}
                           ELSE cascaded
            /\ TaskDone(t, UnitRes)
            /\ UNCHANGED <<records, seqCol, seqRec, lastInsert, net>>

\* list_records: SELECT id, data FROM records WHERE collection_id = ?1.
ListRecords(t) ==
    /\ pc[t] = "sel_recs"
    /\ IF EngineBusy(t) THEN EngineFailure(t)
       ELSE /\ TaskDone(t, SelectRecords(req[t].id))
            /\ UNCHANGED <<collections, records, seqCol, seqRec, lastInsert,
                           cascaded, net>>

\* SELECT id, data FROM records WHERE collection_id = ?1 AND id = ?2:
\* get_record, also when update_record calls it to read back.
GetRecordRow(t) ==
    /\ pc[t] = "sel_rec"
    /\ IF EngineBusy(t) THEN EngineFailure(t)
       ELSE /\ LET row == SelectRecord(req[t].id, req[t].rid)
               IN  TaskDone(t, IF call[t] = "update_record" /\ row = NoneRes
                               THEN ErrRes("Record not found") ELSE row)
            /\ UNCHANGED <<collections, records, seqCol, seqRec, lastInsert,
                           cascaded, net>>

\* update_record: UPDATE records SET data, then self.get_record(..), which on
\* Mutex<Connection> starts with self.lock().await while conn is still alive.
UpdateRecord(t) ==
    /\ pc[t] = "upd_rec"
    /\ IF EngineBusy(t) THEN EngineFailure(t)
       ELSE /\ records' = UpdateRecordsData(records, req[t].id, req[t].rid,
                                            to_string(req[t].data))
            /\ pc' = [pc EXCEPT ![t] = IF backend = "B" THEN "relock"
                                       ELSE "sel_rec"]
            /\ UNCHANGED <<backend, collections, seqCol, seqRec, lastInsert,
                           lock, call, req, nops, snap, cascaded, net, shadow>>
            /\ out' = NoOut

\* delete_record: DELETE FROM records WHERE collection_id = ?1 AND id = ?2.
DeleteRecord(t) ==
    /\ pc[t] = "del_rec"
    /\ IF EngineBusy(t) THEN EngineFailure(t)
       ELSE /\ records' = DeleteFromRecords(records, req[t].id, req[t].rid)
            /\ net' = IF req[t].rid \in RecordsOf(req[t].id)
                      THEN [net EXCEPT ![req[t].id] = @ - 1] ELSE net
            /\ TaskDone(t, UnitRes)
            /\ UNCHANGED <<collections, seqCol, seqRec, lastInsert, cascaded>>

Next ==
    \E t \in Tasks :
        \/ Invoke(t)
        \/ Lock(t)
        \/ InsertCollection(t)
        \/ InsertRecord(t)
        \/ ReturnRowid(t)
        \/ GetCollectionRow(t)
        \/ ListCollections(t)
        \/ UpdateName(t)
        \/ UpdateSchema(t)
        \/ DeleteCollection(t)
        \/ ListRecords(t)
        \/ GetRecordRow(t)
        \/ UpdateRecord(t)
        \/ DeleteRecord(t)

Spec == Init /\ [][Next]_vars

\* ------------------------------------------------- validate_record alone
\* validate_record applied to every schema over FieldNames and every document
\* over DocNames: the inputs are drawn by ValInit, Validate applies it.
FieldNames == {"title", "age"}
DocNames == FieldNames \cup {"extra"}
FieldTypes == {"String", "Text", "Number", "Boolean", "Json"}
FieldDefinitions == [type : FieldTypes, required : BOOLEAN, default : {None}]
Values == {JNull, JBool(TRUE), JNumber(1), JString("Hello!"), JArray(<<>>),
           JObject(<<>>)}
ValSchemas ==
    {[fields |-> f] : f \in UNION {[N -> FieldDefinitions] : N \in SUBSET FieldNames}}
ValDocs ==
    Values \cup {JObject(o) : o \in UNION {[N -> Values] : N \in SUBSET DocNames}}

\* Result<(), Vec<ValidationError>> as a response.
ResultRes(v) == [tag |-> "Result", ok |-> v.ok, errors |-> v.errors]

ValInit ==
    /\ backend \in {"A", "B"}
    /\ collections = <<>>
    /\ records = <<>>
    /\ seqCol = 0
    /\ seqRec = 0
    /\ lastInsert = [c \in {0} \cup Tasks |-> 0]
    /\ lock = NoTask
    /\ \E S \in ValSchemas, D \in ValDocs :
          req = [t \in Tasks |->
                    IF t = 1
                    THEN Req("validate_record", FALSE, 0, 0, None, Some(S), D)
                    ELSE NoReq]
    /\ pc = [t \in Tasks |-> IF t = 1 THEN "validate" ELSE "idle"]
    /\ call = [t \in Tasks |-> IF t = 1 THEN "validate_record" ELSE "none"]
    /\ out = NoOut
    /\ nops = 0
    /\ snap = [t \in Tasks |-> Pending]
    /\ cascaded = {}
    /\ net = [c \in Ids |-> 0]
    /\ shadow = [collections |-> <<>>, records |-> <<>>]

\* validate_record(schema, data), the HashMap iterating in some order.
Validate(t) ==
    /\ pc[t] = "validate"
    /\ \E order \in Orders(DOMAIN req[t].schema.v.fields) :
          TaskDone(t, ResultRes(validate_record(req[t].schema.v, req[t].data,
                                                order)))
    /\ UNCHANGED <<collections, records, seqCol, seqRec, lastInsert,
                   cascaded, net>>

ValNext == \E t \in Tasks : Validate(t)

ValSpec == ValInit /\ [][ValNext]_vars

\* ------------------------------------------- one caller, one call at a time
\* A single caller makes the calls of the round-trip tests in sequence, each
\* when the one before has returned: create_collection, get_collection of the
\* id returned, create_record (through the storage layer or the handler),
\* get_record of the id returned, update_record of it.  The schemas and the
\* documents range over every field type, default and kind of JSON value.
RtDefaults == {None, Some(JNull), Some(JString("Hello!"))}
RtFieldDefinitions == [type : FieldTypes, required : BOOLEAN, default : RtDefaults]
RtOptSchemas ==
    {None, Some([fields |-> <<>>])}
    \cup {Some([fields |-> [f \in {"title"} |-> d]]) : d \in RtFieldDefinitions}
RtDocs ==
    Values
    \cup {JObject([title |-> v]) : v \in Values}
    \cup {JArray(<<JNumber(1), JNull>>),
          JObject([title |-> JObject([extra |-> JArray(<<JBool(TRUE)>>)])])}

\* The calls that may follow the call that has just returned.  A read-back
\* carries, in the arguments it does not use, what was given to the create.
NextCalls ==
    CASE out.req.kind = "create_collection" /\ out.res.tag = "Id" ->
            {Req("get_collection", FALSE, out.res.id, 0, out.req.name,
                 out.req.schema, JNull)}
      [] out.req.kind = "get_collection" ->
            {Req("create_record", x[1], x[2], 0, None, None, x[3]) :
                x \in BOOLEAN \X Ids \X RtDocs}
      [] out.req.kind = "create_record" /\ out.res.tag = "Id" ->
            {Req("get_record", FALSE, out.req.id, out.res.id, None, None,
                 out.req.data)}
      [] out.req.kind = "get_record" ->
            {Req("update_record", x[1], out.req.id, out.req.rid, None, None, x[2]) :
                x \in BOOLEAN \X Docs}
      [] OTHER -> {}

SeqInit ==
    /\ backend \in {"A", "B"}
    /\ collections = <<>>
    /\ records = <<>>
    /\ seqCol = 0
    /\ seqRec = 0
    /\ lastInsert = [c \in {0} \cup Tasks |-> 0]
    /\ lock = NoTask
    /\ \E n \in Names, s \in RtOptSchemas :
          req = [t \in Tasks |->
                    IF t = 1
                    THEN Req("create_collection", FALSE, 0, 0, Some(n), s, JNull)
                    ELSE NoReq]
    /\ pc = [t \in Tasks |->
                IF t = 1 THEN StartPc("create_collection", req[t]) ELSE "idle"]
    /\ call = [t \in Tasks |-> IF t = 1 THEN "create_collection" ELSE "none"]
    /\ out = NoOut
    /\ nops = 0
    /\ snap = [t \in Tasks |-> Pending]
    /\ cascaded = {}
    /\ net = [c \in Ids |-> 0]
    /\ shadow = [collections |-> <<>>, records |-> <<>>]

\* The caller's next call, made when the last one has returned.
NextCall(t) ==
    /\ t = 1
    /\ pc[t] = "idle"
    /\ \E rq \in NextCalls :
          LET method == IF rq.api THEN "get_collection" ELSE rq.kind
          IN  /\ req' = [req EXCEPT ![t] = rq]
              /\ call' = [call EXCEPT ![t] = method]
              /\ pc' = [pc EXCEPT ![t] = StartPc(method, rq)]
    /\ out' = NoOut
    /\ UNCHANGED <<backend, collections, records, seqCol, seqRec, lastInsert,
                   lock, nops, snap, cascaded, net, shadow>>

SeqNext ==
    \E t \in Tasks :
        \/ NextCall(t)
        \/ Lock(t)
        \/ InsertCollection(t)
        \/ InsertRecord(t)
        \/ ReturnRowid(t)
        \/ GetCollectionRow(t)
        \/ GetRecordRow(t)
        \/ UpdateRecord(t)

SeqSpec == SeqInit /\ [][SeqNext]_vars

\* The scheduler runs a task that can take a step.
FairSeqSpec == SeqSpec /\ WF_vars(SeqNext)

\* ------------------------------------------------- the HTTP error mapping
\* impl IntoResponse for AppError: the status of each variant.
into_response(err) ==
    CASE err = "LibsqlError" -> 500
      [] err = "JsonError" -> 500
      [] err = "UnknownError" -> 500
      [] err = "NotFound" -> 404
      [] err = "Validation" -> 422

\* The map_err closure of the update_collection and update_record handlers: a
\* boxed libsql::Error becomes LibsqlError, any other boxed error UnknownError.
map_err(res) ==
    IF res = ErrRes("engine") THEN "LibsqlError" ELSE "UnknownError"

\* The status of the PATCH response, from what the handler's storage call (or
\* the handler itself) returned.
PatchStatus(res) ==
    IF res.tag = "Err" THEN into_response(map_err(res))
    ELSE IF res.tag = "AppError" THEN into_response(res.e)
    ELSE 200

\* ------------------------------------------ concurrent updates of one row
\* One collection is created; when it is there, two callers update it and read
\* it concurrently.  Each update gives a name and a schema, and the two pairs
\* differ from one another and from the pair the collection was created with
\* in both parts.
UpdCreated == Req("create_collection", FALSE, 0, 0, Some("Users"), None, JNull)
UpdPairs == {<<"New Users", Some(PostsSchema)>>,
             <<"Newer Users", Some([fields |-> <<>>])>>}
UpdRequests ==
    {Req("update_collection", FALSE, 1, 0, Some(p[1]), p[2], JNull) : p \in UpdPairs}
    \cup {Req("get_collection", FALSE, 1, 0, None, None, JNull),
          Req("list_collections", FALSE, 0, 0, None, None, JNull)}

UpdInit ==
    /\ backend \in {"A", "B"}
    /\ collections = <<>>
    /\ records = <<>>
    /\ seqCol = 0
    /\ seqRec = 0
    /\ lastInsert = [c \in {0} \cup Tasks |-> 0]
    /\ lock = NoTask
    /\ req = [t \in Tasks |-> IF t = 1 THEN UpdCreated ELSE NoReq]
    /\ pc = [t \in Tasks |->
                IF t = 1 THEN StartPc("create_collection", req[t]) ELSE "idle"]
    /\ call = [t \in Tasks |-> IF t = 1 THEN "create_collection" ELSE "none"]
    /\ out = NoOut
    /\ nops = 0
    /\ snap = [t \in Tasks |-> Pending]
    /\ cascaded = {}
    /\ net = [c \in Ids |-> 0]
    /\ shadow = [collections |-> <<>>, records |-> <<>>]

\* A caller that knows the collection's id updates or reads it.
UpdInvoke(t) ==
    /\ pc[t] = "idle"
    /\ \A u \in Tasks : call[u] # "create_collection"
    /\ \E rq \in UpdRequests :
        /\ rq.kind \notin ReadCalls => nops < MaxWrites
        /\ nops' = IF rq.kind \in ReadCalls THEN nops ELSE nops + 1
        /\ req' = [req EXCEPT ![t] = rq]
        /\ call' = [call EXCEPT ![t] = rq.kind]
        /\ pc' = [pc EXCEPT ![t] = StartPc(rq.kind, rq)]
    /\ out' = NoOut
    /\ UNCHANGED <<backend, collections, records, seqCol, seqRec, lastInsert,
                   lock, snap, cascaded, net, shadow>>

UpdNext ==
    \E t \in Tasks :
        \/ UpdInvoke(t)
        \/ Lock(t)
        \/ InsertCollection(t)
        \/ ReturnRowid(t)
        \/ UpdateName(t)
        \/ UpdateSchema(t)
        \/ GetCollectionRow(t)
        \/ ListCollections(t)

UpdSpec == UpdInit /\ [][UpdNext]_vars

\* ------------------------------------------------ every write through the API
\* The requests of clients that reach the storage only through the router:
\* POST /collections, POST /collections/:id/records (the create_record handler,
\* which looks the collection up first), DELETE /collections/:id and
\* GET /collections/:id/records.  The first POST /collections is under way
\* when the behaviour starts.
ApiRequests ==
    {Req("create_collection", FALSE, 0, 0, Some("Users"), None, JNull)}
    \cup {Req("create_record", TRUE, c, 0, None, None,
              JObject([title |-> JString("Hello!")])) : c \in Ids}
    \cup {Req("delete_collection", FALSE, c, 0, None, None, JNull) : c \in Ids}
    \cup {Req("list_records", FALSE, c, 0, None, None, JNull) : c \in Ids}

ApiInit ==
    /\ backend \in {"A", "B"}
    /\ collections = <<>>
    /\ records = <<>>
    /\ seqCol = 0
    /\ seqRec = 0
    /\ lastInsert = [c \in {0} \cup Tasks |-> 0]
    /\ lock = NoTask
    /\ req = [t \in Tasks |->
                IF t = 1
                THEN Req("create_collection", FALSE, 0, 0, Some("Users"), None, JNull)
                ELSE NoReq]
    /\ pc = [t \in Tasks |->
                IF t = 1 THEN StartPc("create_collection", req[t]) ELSE "idle"]
    /\ call = [t \in Tasks |-> IF t = 1 THEN "create_collection" ELSE "none"]
    /\ out = NoOut
    /\ nops = 0
    /\ snap = [t \in Tasks |-> Pending]
    /\ cascaded = {}
    /\ net = [c \in Ids |-> 0]
    /\ shadow = [collections |-> <<>>, records |-> <<>>]

\* A request arrives at the router.
ApiInvoke(t) ==
    /\ pc[t] = "idle"
    /\ \E rq \in ApiRequests :
        /\ rq.kind \notin ReadCalls => nops < MaxWrites
        /\ nops' = IF rq.kind \in ReadCalls THEN nops ELSE nops + 1
        /\ rq.kind = "create_collection" => seqCol < MaxId
        /\ rq.kind = "create_record" => seqRec < MaxId
        /\ LET method == IF rq.api THEN "get_collection" ELSE rq.kind
           IN  /\ req' = [req EXCEPT ![t] = rq]
               /\ call' = [call EXCEPT ![t] = method]
               /\ pc' = [pc EXCEPT ![t] = StartPc(method, rq)]
    /\ out' = NoOut
    /\ UNCHANGED <<backend, collections, records, seqCol, seqRec, lastInsert,
                   lock, snap, cascaded, net, shadow>>

ApiNext ==
    \E t \in Tasks :
        \/ ApiInvoke(t)
        \/ Lock(t)
        \/ InsertCollection(t)
        \/ InsertRecord(t)
        \/ ReturnRowid(t)
        \/ GetCollectionRow(t)
        \/ DeleteCollection(t)
        \/ ListRecords(t)

ApiSpec == ApiInit /\ [][ApiNext]_vars

\* ----------------------------------------------------------------- claims
Returned(kind) == out.req.kind = kind

\* C1: once deleteCollection(C) has completed, getRecord(C, R) returns absence
\* for every record R that was created under C, on both backends.
C1_CascadeOnDelete ==
    (Returned("get_record") /\ out.req.after) => out.res = NoneRes

\* C2: on Mutex<Connection> at most one task at a time is running statements
\* on the shared connection, and that task is the one holding the lock.
C2_MutualExclusion ==
    backend = "B" =>
        /\ Cardinality({t \in Tasks : Holding(t)}) <= 1
        /\ \A t \in Tasks : Holding(t) => lock = t

\* Two requests contend: one holds the connection, the other waits for the lock.
C2_Witness ==
    /\ backend = "B"
    /\ \E t, u \in Tasks : t # u /\ Holding(t) /\ lock = t /\ pc[u] = "lock"

\* C3: on Mutex<Connection> every operation takes the lock once and holds it
\* for all its statements, the read-back of an update included: a task that
\* runs statements holds the lock, a task that holds the lock is not asking
\* for it again, and a task that has returned does not hold it.
C3_LockOnceForWholeOperation ==
    backend = "B" =>
        \A t \in Tasks :
            /\ Holding(t) => lock = t
            /\ lock = t => pc[t] \notin {"lock", "relock"}
            /\ pc[t] = "idle" => lock # t

\* C4: on Mutex<Connection> no createRecord is lost: whenever no createRecord
\* on collection c is between its INSERT and its return, the records of c
\* number the createRecord calls returned minus the rows deleted; and no call
\* returns an engine error.
C4_NoLostWrites ==
    backend = "B" =>
        /\ \A c \in Ids :
              (~\E t \in Tasks : pc[t] = "ret_id" /\ call[t] = "create_record"
                                 /\ req[t].id = c)
              => Cardinality(RecordsOf(c)) = net[c]
        /\ out.res # ErrRes("engine")

\* Two createRecord calls on one collection ran concurrently, both have
\* returned an id, and the collection holds two records.
C4_Witness ==
    /\ backend = "B"
    /\ Returned("create_record") /\ out.req.conc /\ out.res.tag = "Id"
    /\ net[out.req.id] = 2
    /\ Cardinality(RecordsOf(out.req.id)) = 2
    /\ \A t \in Tasks : pc[t] = "idle"

\* C5: on Mutex<Connection> operations take effect in the order in which they
\* took the lock: whenever the lock is free the tables are what running the
\* operations one at a time, in lock order, makes them, and a read returns
\* what the tables held when it took the lock.
C5_ReadAfterWrite ==
    backend = "B" =>
        /\ lock = NoTask =>
              shadow = [collections |-> collections, records |-> records]
        /\ out.req.kind \in ReadCalls => out.res = out.snap

\* A read that had to wait for a write's lock returns the row the write made.
C5_Witness ==
    /\ backend = "B"
    /\ Returned("get_record") /\ out.res.tag = "Record"
    /\ out.res.v.data = JObject([wrong_field |-> JString("Hello!")])
    /\ \E t \in Tasks : pc[t] = "lock"

\* C6: deleteCollection removes a collection and its records in one step: a
\* step that removes a collection leaves no record of that collection.
C6_NoOrphanOnDelete ==
    [][\A c \in DOMAIN collections :
          c \notin DOMAIN collections'
          => \A r \in DOMAIN records' : records'[r].collection_id # c]_vars

\* C7: the create-record handler inserts a record only while its collection
\* exists.
C7_InsertOnlyIntoExistingCollection ==
    [][\A t \in Tasks :
          (pc[t] = "ins_rec" /\ req[t].api /\ pc'[t] = "ret_id")
          => req[t].id \in DOMAIN collections]_vars

\* C8: updateRecord on an existing record returns (with the new data): having
\* written the row, the operation is not left waiting for a lock held by its
\* own task.
C8_UpdateRecordReturns ==
    \A t \in Tasks :
        (pc[t] = "relock" /\ req[t].rid \in RecordsOf(req[t].id)) => lock # t

\* C9: updateRecord on a missing target returns NotFound: having matched no
\* row, the operation is not left waiting for a lock held by its own task.
C9_UpdateMissingRecordReturns ==
    \A t \in Tasks :
        (pc[t] = "relock" /\ req[t].rid \notin RecordsOf(req[t].id)) => lock # t

\* C10: updateCollection on an id that names no collection changes no
\* collection and creates none, whatever fields it carries, and returns the
\* error "Collection not found".
C10_UpdateMissingCollection ==
    [][\A t \in Tasks :
          (/\ call[t] = "update_collection"
           /\ pc[t] \in {"upd_name", "upd_schema", "sel_col"}
           /\ pc'[t] # pc[t]
           /\ req[t].id \notin DOMAIN collections)
          => /\ collections' = collections
             /\ pc[t] = "sel_col" => out'.res = ErrRes("Collection not found")]_vars

\* updateCollection with a name and a schema on a missing id has returned the
\* error while another collection exists.
C10_Witness ==
    /\ Returned("update_collection")
    /\ out.req.name.some /\ out.req.schema.some
    /\ out.res = ErrRes("Collection not found")
    /\ DOMAIN collections # {}
    /\ out.req.id \notin DOMAIN collections


\* C11: each statement of updateCollection changes only the field it names, of
\* the addressed collection only: the name statement leaves the schema, the
\* schema statement leaves the name, an omitted field is never written, no
\* collection appears or disappears, every other collection and every record
\* stays as it is; the final read returns the collection as it is stored.
C11_UpdateCollectionFrame ==
    [][\A t \in Tasks :
          (/\ call[t] = "update_collection"
           /\ pc[t] \in {"upd_name", "upd_schema", "sel_col"}
           /\ pc'[t] # pc[t])
          => /\ records' = records
             /\ DOMAIN collections' = DOMAIN collections
             /\ \A c \in DOMAIN collections \ {req[t].id} :
                    collections'[c] = collections[c]
             /\ req[t].id \in DOMAIN collections =>
                    LET old == collections[req[t].id]
                        new == collections'[req[t].id]
                    IN  /\ (~req[t].name.some \/ pc[t] # "upd_name")
                                => new.name = old.name
                        /\ (~req[t].schema.some \/ pc[t] # "upd_schema")
                                => new.schema = old.schema
                        /\ pc[t] = "upd_name" => new.name = req[t].name.v
                        /\ pc[t] = "sel_col" =>
                                out'.res = ColRes([id |-> req[t].id,
                                                   name |-> old.name,
                                                   schema |-> schema_from_str(old.schema)])]_vars

\* updateCollection with only a name has returned the renamed collection with
\* the schema it had, while another collection exists.
C11_Witness ==
    /\ Returned("update_collection")
    /\ out.req.name = Some("New Users") /\ ~out.req.schema.some
    /\ out.res.tag = "Collection"
    /\ out.res.v.name = "New Users"
    /\ out.res.v.schema = Some(PostsSchema)
    /\ Cardinality(DOMAIN collections) = 2

\* C12: deleted is terminal: an id that was assigned and is absent stays
\* absent in every later state (no later create is given it again), for
\* collections and for records, and getCollection / getRecord on an absent id
\* returns absence.
C12_DeletedIsTerminal ==
    [][/\ \A c \in Ids : (c <= seqCol /\ c \notin DOMAIN collections)
                            => c \notin DOMAIN collections'
       /\ \A r \in Ids : (r <= seqRec /\ r \notin DOMAIN records)
                            => r \notin DOMAIN records'
       /\ \A t \in Tasks :
            /\ (/\ call[t] = "get_collection" /\ ~req[t].api
                /\ pc[t] = "sel_col" /\ pc'[t] # pc[t]
                /\ req[t].id \notin DOMAIN collections)
               => out'.res = NoneRes
            /\ (/\ call[t] = "get_record"
                /\ pc[t] = "sel_rec" /\ pc'[t] # pc[t]
                /\ req[t].rid \notin DOMAIN records)
               => out'.res = NoneRes]_vars

\* Collection 1 was deleted, a later create was given id 2, and getCollection(1)
\* has returned absence.
C12_Witness ==
    /\ Returned("get_collection")
    /\ out.req.id = 1
    /\ out.res = NoneRes
    /\ seqCol = 2
    /\ DOMAIN collections = {2}

\* C13: deleteCollection on an id with no collection, and deleteRecord when no
\* record has both ids, return success and leave both tables as they are, on
\* both backends.
C13_DeleteMissingIsNoOp ==
    [][\A t \in Tasks :
          /\ (/\ pc[t] = "del_col" /\ pc'[t] # pc[t]
              /\ req[t].id \notin DOMAIN collections)
             => /\ collections' = collections
                /\ records' = records
                /\ out'.res = UnitRes
          /\ (/\ pc[t] = "del_rec" /\ pc'[t] # pc[t]
              /\ ~(/\ req[t].rid \in DOMAIN records
                   /\ records[req[t].rid].collection_id = req[t].id))
             => /\ collections' = collections
                /\ records' = records
                /\ out'.res = UnitRes]_vars

\* deleteRecord(c, r) has returned success while r is a record of another
\* collection, which is still stored.
C13_Witness ==
    /\ Returned("delete_record")
    /\ out.res = UnitRes
    /\ out.req.rid \in DOMAIN records
    /\ records[out.req.rid].collection_id # out.req.id


\* C14: listRecords(c) returns the empty sequence whenever no collection c
\* exists; here for a collection that was created, given records and deleted
\* (every record stored under c was a record of c when c was deleted).
C14_ListRecordsOfDeletedCollection ==
    (/\ Returned("list_records")
     /\ out.req.id \notin DOMAIN collections
     /\ \A r \in RecordsOf(out.req.id) : <<out.req.id, r>> \in cascaded)
    => out.res = RecsRes(<<>>)

\* C15: getRecord(c, r) returns the record with id r exactly when a stored
\* record has id r and collection_id c; otherwise it returns absence: never an
\* error, never a record of another collection.
C15_GetRecordScoped ==
    Returned("get_record") =>
        IF /\ out.req.rid \in DOMAIN records
           /\ records[out.req.rid].collection_id = out.req.id
        THEN /\ out.res.tag = "Record"
             /\ out.res.v.id = out.req.rid
             /\ out.res.v.data = from_str(records[out.req.rid].data)
        ELSE out.res = NoneRes

\* getRecord(c, r) has returned absence while r is stored under another
\* collection.
C15_Witness ==
    /\ Returned("get_record")
    /\ out.res = NoneRes
    /\ out.req.rid \in DOMAIN records
    /\ records[out.req.rid].collection_id # out.req.id

\* C16: in the create-record and update-record handlers, when the collection
\* read has a schema: data that fails validate_record ends the request with the
\* validation failure carrying validate_record's whole error list, with both
\* tables unchanged and no storage write started; data that passes goes on to
\* the storage call, whose statement writes that data.
C16_ValidationGatesWrites ==
    [][\A t \in Tasks :
          /\ (/\ req[t].api /\ call[t] = "get_collection"
              /\ pc[t] = "sel_col" /\ pc'[t] # pc[t]
              /\ req[t].id \in DOMAIN collections
              /\ schema_from_str(collections[req[t].id].schema).some)
             => LET S == schema_from_str(collections[req[t].id].schema).v
                    R == {validate_record(S, req[t].data, o) :
                             o \in Orders(DOMAIN S.fields)}
                IN  IF \E v \in R : ~v.ok
                    THEN /\ \E v \in R : out'.res = ValidationRes(v.errors)
                         /\ out'.res.errors # <<>>
                         /\ collections' = collections
                         /\ records' = records
                         /\ pc'[t] = "idle"
                    ELSE /\ call'[t] = req[t].kind
                         /\ pc'[t] = StartPc(req[t].kind, req[t])
                         /\ req'[t] = req[t]
          /\ (req[t].api /\ pc[t] = "ins_rec" /\ pc'[t] # pc[t])
             => \E r \in DOMAIN records' \ DOMAIN records :
                    records'[r] = [collection_id |-> req[t].id,
                                   data |-> to_string(req[t].data)]
          /\ (/\ req[t].api /\ pc[t] = "upd_rec" /\ pc'[t] # pc[t]
              /\ req[t].rid \in RecordsOf(req[t].id))
             => records'[req[t].rid].data = to_string(req[t].data)]_vars

\* A create-record request with {"wrong_field": ..} on a collection with the
\* title schema was answered with MissingRequiredField("title") and no record
\* is stored, after an earlier valid record was.
C16_Witness ==
    /\ Returned("create_record")
    /\ out.req.api
    /\ out.res = ValidationRes(<<MissingRequiredField("title")>>)
    /\ \E r \in DOMAIN records :
            records[r].data = to_string(JObject([title |-> JString("Hello!")]))
    /\ Cardinality(DOMAIN records) = 1


\* C17: for every schema and every document that is not a JSON object,
\* validate_record returns Err with exactly one error, InvalidType on field
\* "data" with expected "object", and no per-field error.
C17_NonObjectShortCircuits ==
    (Returned("validate_record") /\ out.req.data.k # "Object")
    => /\ ~out.res.ok
       /\ Len(out.res.errors) = 1
       /\ out.res.errors[1].e = "InvalidType"
       /\ out.res.errors[1].f = "data"
       /\ out.res.errors[1].expected = "object"

\* A string document was validated against a schema with two required fields.
C17_Witness ==
    /\ Returned("validate_record")
    /\ out.req.data = JString("Hello!")
    /\ DOMAIN out.req.schema.v.fields = FieldNames
    /\ \A f \in FieldNames : out.req.schema.v.fields[f].required
    /\ Len(out.res.errors) = 1

\* C18: for every schema and every object document the returned list holds
\* MissingRequiredField(F) for every required field F the document lacks and
\* an InvalidType on F for every declared field F present with an incompatible
\* value, all together; the result is Ok exactly when there is no such field.
C18_ErrorsAccumulate ==
    (Returned("validate_record") /\ out.req.data.k = "Object")
    => LET S == out.req.schema.v.fields
           D == out.req.data.o
           errs == {out.res.errors[i] : i \in DOMAIN out.res.errors}
           missing == {F \in DOMAIN S : S[F].required /\ F \notin DOMAIN D}
           wrong == {F \in DOMAIN S :
                        F \in DOMAIN D /\ ~is_correct_type(D[F], S[F].type)}
       IN  /\ \A F \in missing : MissingRequiredField(F) \in errs
           /\ \A F \in wrong : \E e \in errs : e.e = "InvalidType" /\ e.f = F
           /\ out.res.ok <=> (missing = {} /\ wrong = {})
           /\ out.res.ok <=> (out.res.errors = <<>>)
           /\ Len(out.res.errors) = Cardinality(missing) + Cardinality(wrong)

\* One required field is missing and another field has the wrong type: both
\* errors are in the one list.
C18_Witness ==
    /\ Returned("validate_record")
    /\ out.req.data.k = "Object"
    /\ Len(out.res.errors) = 2
    /\ MissingRequiredField("title") \in {out.res.errors[i] : i \in {1, 2}}
    /\ InvalidType("age", "Number", "string") \in {out.res.errors[i] : i \in {1, 2}}

\* C19: for an object document every error names a field the schema declares;
\* giving the document any undeclared field, with any value, leaves the error
\* set as it is; a declared field that is absent and not required has no error.
C19_SchemaIsPermissive ==
    (Returned("validate_record") /\ out.req.data.k = "Object")
    => LET S == out.req.schema.v
           D == out.req.data.o
           errs == {out.res.errors[i] : i \in DOMAIN out.res.errors}
       IN  /\ \A e \in errs : e.f \in DOMAIN S.fields
           /\ \A f \in DocNames \ DOMAIN S.fields : \A v \in Values :
                \A o \in Orders(DOMAIN S.fields) :
                    LET r == validate_record(S, JObject((f :> v) @@ D), o)
                    IN  {r.errors[i] : i \in DOMAIN r.errors} = errs
           /\ \A F \in DOMAIN S.fields :
                (F \notin DOMAIN D /\ ~S.fields[F].required)
                    => \A e \in errs : e.f # F

\* A document with an undeclared field, lacking a declared field that is not
\* required, validated Ok.
C19_Witness ==
    /\ Returned("validate_record")
    /\ out.req.data.k = "Object"
    /\ DOMAIN out.req.data.o = {"title", "extra"}
    /\ DOMAIN out.req.schema.v.fields = {"title", "age"}
    /\ ~out.req.schema.v.fields["age"].required
    /\ out.res.ok

\* C20: for a declared field present in the document, no InvalidType is
\* emitted exactly when the type is string or text and the value a JSON string,
\* or number and a JSON number, or boolean and a JSON boolean, or json and a
\* JSON object or array; string and text give the same verdict on every value.
C20_TypeCompatibilityRule ==
    (Returned("validate_record") /\ out.req.data.k = "Object")
    => LET S == out.req.schema.v.fields
           D == out.req.data.o
           errs == {out.res.errors[i] : i \in DOMAIN out.res.errors}
           flagged(F) == \E e \in errs : e.e = "InvalidType" /\ e.f = F
       IN  \A F \in DOMAIN S \cap DOMAIN D :
              /\ ~flagged(F) <=>
                    \/ S[F].type \in {"String", "Text"} /\ D[F].k = "String"
                    \/ S[F].type = "Number" /\ D[F].k = "Number"
                    \/ S[F].type = "Boolean" /\ D[F].k = "Bool"
                    \/ S[F].type = "Json" /\ D[F].k \in {"Object", "Array"}
              /\ S[F].type \in {"String", "Text"} =>
                    LET other == IF S[F].type = "String" THEN "Text" ELSE "String"
                        S2 == [fields |-> [S EXCEPT ![F].type = other]]
                    IN  \A o \in Orders(DOMAIN S) :
                            LET r == validate_record(S2, out.req.data, o)
                            IN  /\ r.ok = out.res.ok
                                /\ flagged(F) <=>
                                     \E i \in DOMAIN r.errors :
                                        /\ r.errors[i].e = "InvalidType"
                                        /\ r.errors[i].f = F

\* A json field holding an array passed and a text field holding a number was
\* flagged.
C20_Witness ==
    /\ Returned("validate_record")
    /\ out.req.data = JObject([title |-> JNumber(1), age |-> JArray(<<>>)])
    /\ DOMAIN out.req.schema.v.fields = {"title", "age"}
    /\ out.req.schema.v.fields["title"].type = "Text"
    /\ out.req.schema.v.fields["age"].type = "Json"
    /\ out.res.errors = <<InvalidType("title", "Text", "number")>>


\* C21: validation is deterministic up to order: whatever order the schema's
\* field map is iterated in, validate_record(S, D) gives the same outcome (Ok
\* or Err) and the same set of errors as the evaluation that was made.
C21_DeterministicUpToOrder ==
    Returned("validate_record")
    => \A o \in Orders(DOMAIN out.req.schema.v.fields) :
          LET r == validate_record(out.req.schema.v, out.req.data, o)
          IN  /\ r.ok = out.res.ok
              /\ {r.errors[i] : i \in DOMAIN r.errors}
                    = {out.res.errors[i] : i \in DOMAIN out.res.errors}
              /\ Len(r.errors) = Len(out.res.errors)

\* Two fields are in violation and this evaluation met "age" before "title".
C21_Witness ==
    /\ Returned("validate_record")
    /\ Len(out.res.errors) = 2
    /\ out.res.errors[1].f = "age"
    /\ out.res.errors[2].f = "title"


\* C22: a schema can be removed at any time: for every collection that has a
\* schema there is a Storage Contract operation after which the collection is
\* still there and getCollection shows no schema.
C22_SchemaCanBeRemoved ==
    \A c \in DOMAIN collections :
        row_to_collection(c).schema.some =>
            \E rq \in Requests :
                LET db == Atomically(rq.kind, rq, [collections |-> collections,
                                                   records |-> records])
                IN  /\ c \in DOMAIN db.collections
                    /\ ~schema_from_str(db.collections[c].schema).some

\* C23: changing a collection never touches records: every statement of
\* updateCollection leaves the records table, and what getRecord and
\* listRecords return for every id, as they were; and listRecords returns the
\* stored records of the collection whether or not they satisfy its schema.
C23_SchemaChangeKeepsRecords ==
    [][\A t \in Tasks :
          /\ (/\ call[t] = "update_collection"
              /\ pc[t] \in {"upd_name", "upd_schema", "sel_col"}
              /\ pc'[t] # pc[t])
             => /\ records' = records
                /\ \A c \in Ids : SelectRecords(c)' = SelectRecords(c)
                /\ \A c \in Ids, r \in Ids : SelectRecord(c, r)' = SelectRecord(c, r)
          /\ (pc[t] = "sel_recs" /\ pc'[t] # pc[t])
             => /\ out'.res.tag = "Records"
                /\ {out'.res.v[i].id : i \in DOMAIN out'.res.v}
                      = {r \in DOMAIN records :
                            records[r].collection_id = req[t].id}]_vars

\* A record that lacks the required title was stored before the collection got
\* the title schema, and getRecord has returned it since.
C23_Witness ==
    /\ Returned("get_record")
    /\ out.res.tag = "Record"
    /\ out.res.v.data = JObject([wrong_field |-> JString("Hello!")])
    /\ out.req.id \in DOMAIN collections
    /\ row_to_collection(out.req.id).schema = Some(PostsSchema)

\* C24: identity is unique and stable: an insert adds exactly one row under an
\* id no row of the table has and leaves every other row as it is; until the
\* create returns nothing changes the id it is about to return, and it returns
\* that id; no update statement adds or removes an id or changes a record's
\* collection_id.
C24_IdentityUniqueAndStable ==
    [][\A t \in Tasks :
          /\ (pc[t] = "ins_col" /\ pc'[t] = "ret_id")
             => LET n == lastInsert'[Conn(t)]
                IN  /\ n \notin DOMAIN collections
                    /\ DOMAIN collections' = DOMAIN collections \cup {n}
                    /\ \A c \in DOMAIN collections : collections'[c] = collections[c]
          /\ (pc[t] = "ins_rec" /\ pc'[t] = "ret_id")
             => LET n == lastInsert'[Conn(t)]
                IN  /\ n \notin DOMAIN records
                    /\ DOMAIN records' = DOMAIN records \cup {n}
                    /\ \A r \in DOMAIN records : records'[r] = records[r]
          /\ (pc[t] = "ret_id" /\ pc'[t] = "ret_id")
             => lastInsert'[Conn(t)] = lastInsert[Conn(t)]
          /\ (pc[t] = "ret_id" /\ pc'[t] = "idle")
             => out'.res = IdRes(lastInsert[Conn(t)])
          /\ (pc[t] \in {"upd_name", "upd_schema", "upd_rec"} /\ pc'[t] # pc[t])
             => /\ DOMAIN collections' = DOMAIN collections
                /\ DOMAIN records' = DOMAIN records
                /\ \A r \in DOMAIN records :
                      records'[r].collection_id = records[r].collection_id]_vars

\* The second createRecord has returned id 2 while record 1 is stored.
C24_Witness ==
    /\ Returned("create_record")
    /\ out.res = IdRes(2)
    /\ DOMAIN records = {1, 2}
    /\ records[1].collection_id = records[2].collection_id

\* C27: listCollections returns one entry for each stored collection and
\* nothing else, and for an existing collection c listRecords(c) returns one
\* entry for each stored record with collection_id c, never a record of
\* another collection, each entry with the stored values.
C27_ListsReturnLiveEntities ==
    /\ Returned("list_collections")
       => /\ out.res.tag = "Collections"
          /\ Len(out.res.v) = Cardinality(DOMAIN collections)
          /\ {out.res.v[i].id : i \in DOMAIN out.res.v} = DOMAIN collections
          /\ \A i \in DOMAIN out.res.v :
                /\ out.res.v[i].name = collections[out.res.v[i].id].name
                /\ out.res.v[i].schema
                      = schema_from_str(collections[out.res.v[i].id].schema)
    /\ (Returned("list_records") /\ out.req.id \in DOMAIN collections)
       => LET mine == {r \in DOMAIN records :
                          records[r].collection_id = out.req.id}
          IN  /\ out.res.tag = "Records"
              /\ Len(out.res.v) = Cardinality(mine)
              /\ {out.res.v[i].id : i \in DOMAIN out.res.v} = mine
              /\ \A i \in DOMAIN out.res.v :
                    out.res.v[i].data = from_str(records[out.res.v[i].id].data)

\* listRecords of an existing collection has returned its one record while a
\* record of another collection is stored.
C27_Witness ==
    /\ Returned("list_records")
    /\ out.req.id \in DOMAIN collections
    /\ Len(out.res.v) = 1
    /\ \E r \in DOMAIN records : records[r].collection_id # out.req.id

\* C28: a PATCH that targets a missing collection, or a missing record of an
\* existing collection, is answered 404.  (The update_collection handler is
\* db.update_collection followed by the error mapping, so every return of
\* update_collection is what the handler maps.)
C28_PatchMissingIsNotFound ==
    /\ (Returned("update_collection") /\ out.res = ErrRes("Collection not found"))
       => PatchStatus(out.res) = 404
    /\ (/\ Returned("update_record") /\ out.req.api
        /\ out.res = ErrRes("Record not found"))
       => PatchStatus(out.res) = 404


\* C25 (as stated): after createCollection(name, schema) returns id,
\* getCollection(id) returns that id, the same name and the same schema, for a
\* present schema and for an absent one.
C25_CollectionRoundTrip ==
    Returned("get_collection")
    => out.res = ColRes([id |-> out.req.id,
                         name |-> out.req.name.v,
                         schema |-> out.req.schema])

\* C25 (amended): getCollection(id) returns that id, the same name, and the
\* same schema except that a field default given as JSON null is read back as
\* no default; an absent schema is read back as absent.
C25_CollectionRoundTripNullDefault ==
    Returned("get_collection")
    => LET given == out.req.schema
           stored ==
               IF ~given.some THEN None
               ELSE Some([fields |->
                       [f \in DOMAIN given.v.fields |->
                           [given.v.fields[f] EXCEPT
                               !.default = IF @ = Some(JNull) THEN None ELSE @]]])
       IN  out.res = ColRes([id |-> out.req.id,
                             name |-> out.req.name.v,
                             schema |-> stored])

\* A collection created with a text field that has a string default was read
\* back as given.
C25_Witness ==
    /\ Returned("get_collection")
    /\ out.req.schema.some
    /\ DOMAIN out.req.schema.v.fields = {"title"}
    /\ out.req.schema.v.fields["title"].type = "Text"
    /\ out.req.schema.v.fields["title"].default = Some(JString("Hello!"))
    /\ out.res.tag = "Collection"
    /\ out.res.v.schema = out.req.schema

\* C26: after createRecord(c, d) returns r, getRecord(c, r) returns data equal
\* to d exactly; a declared field that is optional and missing from the
\* document, with or without a default, is never reported by the handler's
\* validation and never filled in.
C26_RecordRoundTripNoDefaulting ==
    /\ Returned("get_record")
       => out.res = RecRes([id |-> out.req.rid, data |-> out.req.data])
    /\ (/\ Returned("create_record") /\ out.res.tag = "AppError"
        /\ out.res.e = "Validation" /\ out.req.data.k = "Object")
       => LET S == row_to_collection(out.req.id).schema.v.fields
          IN  \A i \in DOMAIN out.res.errors :
                ~(/\ out.res.errors[i].f \in DOMAIN S
                  /\ ~S[out.res.errors[i].f].required
                  /\ out.res.errors[i].f \notin DOMAIN out.req.data.o)

\* The collection declares title optional with a default, a record without
\* title was created, and getRecord has returned it without a title.
C26_Witness ==
    /\ Returned("get_record")
    /\ out.req.id \in DOMAIN collections
    /\ row_to_collection(out.req.id).schema.some
    /\ DOMAIN row_to_collection(out.req.id).schema.v.fields = {"title"}
    /\ ~row_to_collection(out.req.id).schema.v.fields["title"].required
    /\ row_to_collection(out.req.id).schema.v.fields["title"].default
            = Some(JString("Hello!"))
    /\ out.req.data = JObject(<<>>)
    /\ out.res.tag = "Record"
    /\ out.res.v.data = JObject(<<>>)

\* C29: the storage layer's createRecord(c, d) inserts whatever it is given:
\* whether or not collection c exists, whether or not d is an object or fits
\* the schema, it returns the id of a new record with collection_id c and
\* data d.
C29_CreateRecordUnconditional ==
    (Returned("create_record") /\ ~out.req.api)
    => /\ out.res.tag = "Id"
       /\ out.res.id \in DOMAIN records
       /\ records[out.res.id].collection_id = out.req.id
       /\ from_str(records[out.res.id].data) = out.req.data

\* createRecord has stored a JSON string under a collection id that names no
\* collection, while the one collection there is requires an object with a
\* title.
C29_Witness ==
    /\ Returned("create_record") /\ ~out.req.api
    /\ out.req.id \notin DOMAIN collections
    /\ out.req.data = JString("Hello!")
    /\ out.res.tag = "Id"
    /\ records[out.res.id].collection_id = out.req.id
    /\ \E c \in DOMAIN collections :
          /\ row_to_collection(c).schema.some
          /\ DOMAIN row_to_collection(c).schema.v.fields = {"title"}
          /\ row_to_collection(c).schema.v.fields["title"].required

\* C30: on Mutex<Connection>, under fair scheduling, every operation that has
\* been invoked eventually returns.
C30_EveryOperationReturns ==
    \A t \in Tasks : (backend = "B" /\ pc[t] # "idle") ~> (pc[t] = "idle")


\* C34: a declared field that is present with the value null is present and
\* mismatched: whatever its declared type, required or optional, validation
\* fails with exactly one error for that field, InvalidType with the declared
\* type and actual type "null", and no MissingRequiredField; an optional
\* field that is omitted gets no error.
C34_NullIsPresentAndMismatched ==
    (Returned("validate_record") /\ out.req.data.k = "Object")
    => LET S == out.req.schema.v.fields
           D == out.req.data.o
           of(F) == {i \in DOMAIN out.res.errors : out.res.errors[i].f = F}
       IN  \A F \in DOMAIN S :
              /\ (F \in DOMAIN D /\ D[F] = JNull)
                 => /\ ~out.res.ok
                    /\ Cardinality(of(F)) = 1
                    /\ \A i \in of(F) :
                          out.res.errors[i] = InvalidType(F, S[F].type, "null")
              /\ (F \notin DOMAIN D /\ ~S[F].required) => of(F) = {}

\* An optional json field sent as null was rejected as InvalidType, the only
\* error of the result.
C34_Witness ==
    /\ Returned("validate_record")
    /\ out.req.data = JObject([title |-> JNull])
    /\ DOMAIN out.req.schema.v.fields = {"title"}
    /\ out.req.schema.v.fields["title"].type = "Json"
    /\ ~out.req.schema.v.fields["title"].required
    /\ out.res = ResultRes([ok |-> FALSE,
                            errors |-> <<InvalidType("title", "Json", "null")>>])


\* C31: a create returns the id of the row that very call inserted, under
\* concurrency: the INSERT of a caller puts that caller's name and schema (or
\* collection_id and data) in a new row, whose id differs from the id every
\* other pending create is about to return; no step of another caller changes
\* the id a pending create is about to return; and the create returns that id,
\* which for a record still names a row of the caller's collection_id.
C31_CreateReturnsOwnId ==
    [][\A t \in Tasks :
          LET mine == lastInsert'[Conn(t)]
              others == {u \in Tasks \ {t} : pc[u] = "ret_id" /\ call[u] = call[t]}
          IN  /\ (pc[t] = "ins_col" /\ pc'[t] = "ret_id")
                 => /\ mine \notin DOMAIN collections
                    /\ mine \in DOMAIN collections'
                    /\ collections'[mine] = CollectionRow(req[t])
                    /\ \A u \in others :
                          /\ lastInsert'[Conn(u)] = lastInsert[Conn(u)]
                          /\ lastInsert'[Conn(u)] # mine
              /\ (pc[t] = "ins_rec" /\ pc'[t] = "ret_id")
                 => /\ mine \notin DOMAIN records
                    /\ mine \in DOMAIN records'
                    /\ records'[mine] = RecordRow(req[t])
                    /\ \A u \in others :
                          /\ lastInsert'[Conn(u)] = lastInsert[Conn(u)]
                          /\ lastInsert'[Conn(u)] # mine
              /\ (pc[t] = "ret_id" /\ pc'[t] = "ret_id")
                 => lastInsert'[Conn(t)] = lastInsert[Conn(t)]
              /\ (pc[t] = "ret_id" /\ pc'[t] = "idle")
                 => /\ out'.req = req[t]
                    /\ out'.res = IdRes(lastInsert[Conn(t)])
                    /\ \A u \in others : lastInsert[Conn(u)] # out'.res.id
                    /\ (call[t] = "create_record" /\ out'.res.id \in DOMAIN records)
                       => records[out'.res.id].collection_id = req[t].id]_vars

\* On Database, two createCollection calls with different names ran
\* concurrently: the first to insert has returned 1, the row under its own
\* name, after the other inserted row 2 and before the other returned.
C31_Witness ==
    /\ backend = "A"
    /\ Returned("create_collection")
    /\ out.res = IdRes(1)
    /\ DOMAIN collections = {1, 2}
    /\ collections[1].name = out.req.name.v
    /\ collections[2].name # out.req.name.v
    /\ \E u \in Tasks :
          /\ pc[u] = "ret_id"
          /\ call[u] = "create_collection"
          /\ lastInsert[Conn(u)] = 2


\* C32: updateCollection with a name and a schema is atomic to other callers on
\* both backends: every collection that getCollection or listCollections
\* returns, and the row stored when no update is running, carries the name and
\* schema it was created with or the name and schema of one update, never the
\* name of one with the schema of another.
C32_UpdateCollectionAtomic ==
    LET Whole == {<<UpdCreated.name.v, UpdCreated.schema>>} \cup UpdPairs
    IN  /\ (Returned("get_collection") /\ out.res.tag = "Collection")
           => <<out.res.v.name, out.res.v.schema>> \in Whole
        /\ (Returned("list_collections") /\ out.res.tag = "Collections")
           => \A i \in DOMAIN out.res.v :
                 <<out.res.v[i].name, out.res.v[i].schema>> \in Whole
        /\ (\A t \in Tasks : pc[t] = "idle")
           => \A c \in DOMAIN collections :
                 <<row_to_collection(c).name, row_to_collection(c).schema>> \in Whole


\* C33 (as stated): when all writes go through the API, in every reachable
\* state in which a create-collection request has just returned id c,
\* listRecords(c) is empty.
C33_NewCollectionStartsEmpty ==
    (Returned("create_collection") /\ out.res.tag = "Id")
    => SelectRecords(out.res.id) = RecsRes(<<>>)

\* C33 (amended): when all writes go through the API, a collection is empty
\* when its row is inserted, whatever was created and deleted before, on both
\* backends: no stored record has its id as collection_id; on
\* Mutex<Connection> that is still so when the create returns the id.
C33_NewCollectionStartsEmptyAtInsert ==
    [][\A t \in Tasks :
          /\ (pc[t] = "ins_col" /\ pc'[t] = "ret_id")
             => /\ lastInsert'[Conn(t)] \in DOMAIN collections' \ DOMAIN collections
                /\ \A r \in DOMAIN records' :
                      records'[r].collection_id # lastInsert'[Conn(t)]
          /\ (/\ backend = "B" /\ call[t] = "create_collection"
              /\ pc[t] = "ret_id" /\ pc'[t] = "idle")
             => /\ out'.res.tag = "Id"
                /\ \A r \in DOMAIN records' :
                      records'[r].collection_id # out'.res.id]_vars

\* Collection 1 was deleted with a record in it, the record is still stored,
\* and the next create-collection request has returned id 2 with no records.
C33_Witness ==
    /\ Returned("create_collection")
    /\ out.res = IdRes(2)
    /\ DOMAIN collections = {2}
    /\ \E r \in DOMAIN records : records[r].collection_id = 1
    /\ SelectRecords(2) = RecsRes(<<>>)

====
